---- MODULE Spec2Model ----
(***************************************************************************)
(* Model of app.py: the fee roster, the configuration document and the     *)
(* receipt generator (single document, multi-page document, archive).      *)
(*                                                                         *)
(* A text is a sequence of tokens (strings).  Student names are spelled    *)
(* character by character, so that the replacement of spaces in a file     *)
(* name is computed; a template is a sequence of literal tokens, line      *)
(* breaks and placeholder tokens, so that str.format and str.split are     *)
(* computed.  Lengths are in millimetres (the code multiplies by mm).      *)
(***************************************************************************)
EXTENDS Integers, Sequences, FiniteSets, TLC

VARIABLES
    config_file,        \* content of CONFIG_PATH, or NoFile
    DEFAULT_ui_labels,  \* the dict object DEFAULT_CONFIG["ui_labels"]
    cfg,                \* the configuration object the script holds
    students_file,      \* content of DATA_PATH (a CSV table), or NoFile
    df,                 \* the frame the last ensure_columns call returned
    receipts,           \* files the last handler wrote under RECEIPTS_DIR
    result              \* what the last operation was and what it returned

\* DEFAULT_ui_labels lives as long as the module stays loaded: the dict
\* literal of DEFAULT_CONFIG is evaluated once per execution of the module
\* body, and every load_config() until the next execution hands out the same
\* nested object.  A behaviour is one such lifetime.

vars == <<config_file, DEFAULT_ui_labels, cfg, students_file, df, receipts, result>>

----------------------------------------------------------------------------
(* Bounds of the model *)

\* longest selection of records handed to a bulk generation
MaxRows == 2
\* most lines in a label block of a configuration under test
MaxLines == 3
\* most rows in an uploaded or edited roster table
MaxTableRows == 1
\* most settings widgets whose value differs from the loaded one
MaxEdits == 2
\* clock readings per second (datetime.now() has microseconds)
TicksPerSecond == 2

----------------------------------------------------------------------------
(* Texts *)

NL == "\n"

NoFile == [exists |-> FALSE]

Max(a, b) == IF a >= b THEN a ELSE b

RECURSIVE Digits(_)
\* str(n) for n >= 0, one token per decimal digit
Digits(n) == IF n < 10 THEN <<ToString(n)>> ELSE Digits(n \div 10) \o <<ToString(n % 10)>>

\* "%02d"
TwoDigits(n) == IF n < 10 THEN <<"0", ToString(n)>> ELSE Digits(n)

\* format(float(amount), ".2f"), the amount counted in hundredths
Format2f(a) ==
    LET m == IF a < 0 THEN -a ELSE a
    IN  (IF a < 0 THEN <<"-">> ELSE <<>>) \o Digits(m \div 100) \o <<".">> \o TwoDigits(m % 100)

\* str(float(amount)): shortest repr, always with a fractional part
FloatStr(a) ==
    LET m == IF a < 0 THEN -a ELSE a
        f == m % 100
    IN  (IF a < 0 THEN <<"-">> ELSE <<>>) \o Digits(m \div 100) \o <<".">>
        \o (IF f % 10 = 0 THEN <<ToString(f \div 10)>> ELSE TwoDigits(f))

RECURSIVE SplitLines(_)
\* s.split("\n")
SplitLines(s) ==
    IF \A i \in 1..Len(s) : s[i] # NL THEN <<s>>
    ELSE LET i == CHOOSE j \in 1..Len(s) : s[j] = NL /\ \A k \in 1..(j-1) : s[k] # NL
         IN  <<SubSeq(s, 1, i-1)>> \o SplitLines(SubSeq(s, i+1, Len(s)))

\* s.replace(" ", "_")
ReplaceSpaces(s) == [i \in 1..Len(s) |-> IF s[i] = " " THEN "_" ELSE s[i]]

\* fee_key.lower()
Lower(k) ==
    CASE k = "MENGAJI" -> "mengaji"
      [] k = "SILAT" -> "silat"
      [] OTHER -> "tennis"

----------------------------------------------------------------------------
(* Clock and receipt numbers *)

Seconds(now) == now \div TicksPerSecond

\* faulty variant: the stamp stops at the minute
StrfStampWithoutSeconds(now) ==
    LET s == Seconds(now)
    IN  Digits(s \div 86400) \o <<"-">> \o TwoDigits((s \div 3600) % 24)
        \o TwoDigits((s \div 60) % 60)

\* strftime("%Y%m%d-%H%M%S"): the date part is the day's ordinal
StrfStamp(now) ==
    LET s == Seconds(now)
    IN  Digits(s \div 86400) \o <<"-">> \o TwoDigits((s \div 3600) % 24)
        \o TwoDigits((s \div 60) % 60) \o TwoDigits(s % 60)

\* strftime("%Y-%m-%d")
StrfDate(now) == <<"day">> \o Digits(Seconds(now) \div 86400)

\* strftime("%Y%m%d_%H%M")
StrfMinute(now) ==
    LET s == Seconds(now)
    IN  Digits(s \div 86400) \o <<"_">> \o TwoDigits((s \div 3600) % 24) \o TwoDigits((s \div 60) % 60)

next_receipt_no(prefix, now) == prefix \o <<"-">> \o StrfStamp(now)

----------------------------------------------------------------------------
(* Configuration *)

TopKeys ==
    {"app_title", "branding_text", "receipt_prefix", "receipt_footer",
     "receipt_logo_path", "currency", "receipt_left_label_block",
     "receipt_right_label_block"}

LabelKeys == {"mengaji", "silat"}

\* a key the program does not recognise
UnknownKey == "theme"

EmptyDict == [k \in {} |-> <<>>]

DEFAULT_left_label_block ==
    <<"Nama", NL, "No. KP", NL, "Tingkatan & Kelas", NL, "Jenis Yuran", NL,
      "Amaun", NL, "Tarikh Bayaran", NL, "No. Resit">>

DEFAULT_right_label_block ==
    <<"{NAMA}", NL, "{NO_KP}", NL, "{TINGKATAN}", " ", "{KELAS}", NL, "{FEE_TYPE}", NL,
      "{CURRENCY}", "{AMOUNT:.2f}", NL, "{DATE}", NL, "{RECEIPT_NO}">>

\* the top-level entries of DEFAULT_CONFIG
DEFAULT_CONFIG ==
    [k \in TopKeys |->
        CASE k = "app_title" -> <<"Sistem Yuran Asrama (Mengaji & Silat)">>
          [] k = "branding_text" -> <<"SMK PONDOK UPEH">>
          [] k = "receipt_prefix" -> <<"DN">>
          [] k = "receipt_footer" -> <<"Resit ini dijana secara digital dan tidak memerlukan tandatangan.">>
          [] k = "receipt_logo_path" -> <<>>
          [] k = "currency" -> <<"RM">>
          [] k = "receipt_left_label_block" -> DEFAULT_left_label_block
          [] k = "receipt_right_label_block" -> DEFAULT_right_label_block]

\* the literal of DEFAULT_CONFIG["ui_labels"]
DEFAULT_ui_labels_literal ==
    [k \in LabelKeys |-> IF k = "mengaji" THEN <<"Yuran Mengaji">> ELSE <<"Yuran Silat">>]

\* A configuration object: its top-level entries, and its "ui_labels" entry,
\* which is absent, the dict object of DEFAULT_CONFIG ("shared"), or a dict
\* of its own ("own", the entries in own).
Config(top, ui, own) == [exists |-> TRUE, top |-> top, ui |-> ui, own |-> own]

\* cfg["ui_labels"] as a value, given the content of the shared dict
UiLabels(c, shared) == IF c.ui = "shared" THEN shared ELSE c.own

\* DEFAULT_CONFIG.copy(): a new top-level dict, the nested dict shared
CopyOfDefault == Config(DEFAULT_CONFIG, "shared", EmptyDict)

\* load_config()
load_config(file) ==
    IF file.exists THEN Config(file.top, file.ui, file.own) ELSE CopyOfDefault

\* save_config(cfg): json.dump writes the nested dict by value
save_config(c, shared) ==
    Config(c.top, IF c.ui = "absent" THEN "absent" ELSE "own",
           IF c.ui = "absent" THEN EmptyDict ELSE UiLabels(c, shared))

\* cfg.get(k, default)
Get(c, k, default) == IF k \in DOMAIN c.top THEN c.top[k] ELSE default

\* the configuration as a plain value: what a reader of cfg sees
View(c, shared) ==
    [top |-> c.top, has_ui |-> c.ui # "absent",
     ui_labels |-> IF c.ui = "absent" THEN EmptyDict ELSE UiLabels(c, shared)]

\* the documented defaults, as a plain value
DocumentedDefaults ==
    [top |-> DEFAULT_CONFIG, has_ui |-> TRUE, ui_labels |-> DEFAULT_ui_labels_literal]

----------------------------------------------------------------------------
(* Receipt drawing *)

\* A4, in millimetres
PageWidth == 210
PageHeight == 297
margin == 18
\* y - 10*mm, the header line
HeaderDrop == 10
\* y - 12*mm, the rule under the header
RuleDrop == 12
\* y - 20*mm and width = height = 20*mm, the logo box
LogoBox == 20
\* margin + 25*mm, the branding text beside a logo
LogoTextShift == 25
\* top = y - 25*mm, the first body row
BodyDrop == 25
row_h == 7
\* the rule above the footer, and the footer line
FooterRuleY == 25
FooterY == 20
BrandingFontSize == 16
BodyFontSize == 11
FooterFontSize == 9

TITLE == <<"RESIT PEMBAYARAN YURAN">>

\* one call on the canvas
Op(op, x, y, w, text) == [op |-> op, x |-> x, y |-> y, w |-> w, text |-> text]

SetFont(name, size) == Op("setFont", size, 0, 0, <<name>>)

Ok(v) == [ok |-> TRUE, err |-> "", val |-> v]
Raise(e) == [ok |-> FALSE, err |-> e, val |-> <<>>]

\* the names str.format is given
FormatFields ==
    {"{NAMA}", "{NO_KP}", "{TINGKATAN}", "{KELAS}", "{FEE_TYPE}", "{AMOUNT:.2f}",
     "{AMOUNT}", "{DATE}", "{RECEIPT_NO}", "{CURRENCY}"}

\* a replacement field naming no argument, and a single brace
UnknownField == "{FOO}"
LoneBrace == "{"

RECURSIVE FormatFrom(_, _, _, _)
\* right_labels.format(...), from token i on, done being what is formatted so
\* far: the first bad field raises
FormatFrom(tpl, vals, i, done) ==
    IF i > Len(tpl) THEN Ok(done)
    ELSE IF tpl[i] = UnknownField THEN Raise("KeyError")
    ELSE IF tpl[i] = LoneBrace THEN Raise("ValueError")
    ELSE FormatFrom(tpl, vals, i + 1,
                    done \o (IF tpl[i] \in FormatFields THEN vals[tpl[i]] ELSE <<tpl[i]>>))

\* faulty variant: after a failed load the text stays beside the missing logo
DrawHeaderKeepsLogoOffset(c, logo_ok) ==
    LET y == PageHeight - margin
        branding == Get(c, "branding_text", <<>>)
    IN  IF Get(c, "receipt_logo_path", <<>>) # <<>>
        THEN (IF logo_ok
              THEN << Op("drawImage", margin, y - LogoBox, LogoBox, c.top["receipt_logo_path"]) >>
              ELSE << >>)
             \o << SetFont("Helvetica-Bold", BrandingFontSize),
                   Op("drawString", margin + LogoTextShift, y - HeaderDrop, 0, branding) >>
        ELSE << SetFont("Helvetica-Bold", BrandingFontSize),
                Op("drawString", margin, y - HeaderDrop, 0, branding) >>

\* the header band
DrawHeader(c, logo_ok) ==
    LET y == PageHeight - margin
        branding == Get(c, "branding_text", <<>>)
    IN  IF Get(c, "receipt_logo_path", <<>>) # <<>>
        THEN IF logo_ok
             THEN << Op("drawImage", margin, y - LogoBox, LogoBox, c.top["receipt_logo_path"]),
                     SetFont("Helvetica-Bold", BrandingFontSize),
                     Op("drawString", margin + LogoTextShift, y - HeaderDrop, 0, branding) >>
             ELSE << SetFont("Helvetica-Bold", BrandingFontSize),
                     Op("drawString", margin, y - HeaderDrop, 0, branding) >>
        ELSE << SetFont("Helvetica-Bold", BrandingFontSize),
                Op("drawString", margin, y - HeaderDrop, 0, branding) >>

\* faulty variant: the loop stops at the shorter block
DrawBodyShorterBlock(left_lines, right_lines) ==
    LET top == PageHeight - margin - BodyDrop
        n == IF Len(left_lines) <= Len(right_lines) THEN Len(left_lines) ELSE Len(right_lines)
    IN  [j \in 1..(3 * n) |->
            LET i == (j - 1) \div 3
                y_line == top - i * row_h
            IN  CASE (j - 1) % 3 = 0 -> SetFont("Helvetica", BodyFontSize)
                  [] (j - 1) % 3 = 1 -> Op("drawString", margin, y_line, 0, left_lines[i + 1])
                  [] OTHER -> Op("drawString", PageWidth \div 2, y_line, 0, right_lines[i + 1])]

\* the loop over the body rows
DrawBody(left_lines, right_lines) ==
    LET top == PageHeight - margin - BodyDrop
        n == Max(Len(left_lines), Len(right_lines))
    IN  [j \in 1..(3 * n) |->
            LET i == (j - 1) \div 3
                y_line == top - i * row_h
            IN  CASE (j - 1) % 3 = 0 -> SetFont("Helvetica", BodyFontSize)
                  [] (j - 1) % 3 = 1 ->
                        Op("drawString", margin, y_line, 0,
                           IF i < Len(left_lines) THEN left_lines[i + 1] ELSE <<>>)
                  [] OTHER ->
                        Op("drawString", PageWidth \div 2, y_line, 0,
                           IF i < Len(right_lines) THEN right_lines[i + 1] ELSE <<>>)]

\* the keyword arguments of right_labels.format(...)
FormatValues(c, student, fee_type, amount, paid_date, receipt_no, now) ==
    [f \in FormatFields |->
        CASE f = "{NAMA}" -> student.NAMA
          [] f = "{NO_KP}" -> student.NO_KP
          [] f = "{TINGKATAN}" -> student.TINGKATAN
          [] f = "{KELAS}" -> student.KELAS
          [] f = "{FEE_TYPE}" -> fee_type
          [] f = "{AMOUNT:.2f}" -> Format2f(amount)
          [] f = "{AMOUNT}" -> FloatStr(amount)
          [] f = "{DATE}" -> IF paid_date # <<>> THEN paid_date ELSE StrfDate(now)
          [] f = "{RECEIPT_NO}" -> receipt_no
          [] f = "{CURRENCY}" -> Get(c, "currency", <<"RM">>)]

\* formatted_right: the right block after substitution, or the exception
FormattedRight(c, student, fee_type, amount, paid_date, receipt_no, now) ==
    FormatFrom(Get(c, "receipt_right_label_block", DEFAULT_right_label_block),
               FormatValues(c, student, fee_type, amount, paid_date, receipt_no, now),
               1, <<>>)

\* draw_receipt_page: the calls made on the canvas, or the exception
draw_receipt_page(c, student, fee_type, amount, paid_date, receipt_no, now, logo_ok) ==
    LET y == PageHeight - margin
        left_labels == Get(c, "receipt_left_label_block", DEFAULT_left_label_block)
        formatted_right == FormattedRight(c, student, fee_type, amount, paid_date,
                                          receipt_no, now)
    IN  IF ~formatted_right.ok THEN formatted_right
        ELSE Ok(DrawHeader(c, logo_ok)
                \o << SetFont("Helvetica", BodyFontSize),
                      Op("drawRightString", PageWidth - margin, y - HeaderDrop, 0, TITLE),
                      Op("line", margin, y - RuleDrop, PageWidth - margin, <<>>) >>
                \o DrawBody(SplitLines(left_labels), SplitLines(formatted_right.val))
                \o << Op("line", margin, FooterRuleY, PageWidth - margin, <<>>),
                      SetFont("Helvetica-Oblique", FooterFontSize),
                      Op("drawString", margin, FooterY, 0, Get(c, "receipt_footer", <<>>)) >>)

----------------------------------------------------------------------------
(* Document assembly *)

FEE_KEYS == {"MENGAJI", "SILAT"}

\* a category outside the closed set
OtherFeeKey == "TENNIS"

\* fee_map[fee_type_key]
AmountCol(fee_key) == IF fee_key = "MENGAJI" THEN "MENGAJI_AMOUNT" ELSE "SILAT_AMOUNT"
DateCol(fee_key) == IF fee_key = "MENGAJI" THEN "MENGAJI_DATE" ELSE "SILAT_DATE"

\* label_map = {...}: both labels are read when the dict is built
LabelMap(c, shared) ==
    IF c.ui = "absent" THEN Raise("KeyError")
    ELSE IF ~(LabelKeys \subseteq DOMAIN UiLabels(c, shared)) THEN Raise("KeyError")
    ELSE Ok([k \in FEE_KEYS |-> UiLabels(c, shared)[Lower(k)]])

\* one call of next_receipt_no, with the clock reading it saw
Call(prefix, now) == [prefix |-> prefix, now |-> now, no |-> next_receipt_no(prefix, now)]

\* what one record contributes: its page and its receipt number
RecordPage(c, labels, row, fee_key, now, logo_ok) ==
    IF fee_key \notin FEE_KEYS THEN Raise("KeyError")
    ELSE LET amount == row[AmountCol(fee_key)]
             paid_date == IF row[DateCol(fee_key)] # <<>> THEN row[DateCol(fee_key)]
                          ELSE StrfDate(now)
             call == Call(Get(c, "receipt_prefix", <<"DN">>), now)
             page == draw_receipt_page(c, row, labels[fee_key], amount, paid_date,
                                       call.no, now, logo_ok)
         IN  IF page.ok THEN Ok([page |-> page.val, call |-> call]) ELSE page

\* generate_single_pdf_bytes: a document of one page
generate_single_pdf_bytes(c, shared, row, fee_key, now, logo_ok) ==
    LET labels == LabelMap(c, shared)
    IN  IF ~labels.ok THEN labels
        ELSE LET r == RecordPage(c, labels.val, row, fee_key, now, logo_ok)
             IN  IF r.ok THEN Ok([pages |-> <<r.val.page>>, calls |-> <<r.val.call>>]) ELSE r

RECURSIVE BulkLoop(_, _, _, _, _, _, _, _, _)
\* for _, row in students.iterrows(): draw_receipt_page; showPage.  pages are
\* the pages shown so far; c.save() returns them
BulkLoop(c, labels, students, fee_key, nows, logo_ok, k, pages, calls) ==
    IF k > Len(students) THEN Ok([pages |-> pages, calls |-> calls])
    ELSE LET r == RecordPage(c, labels, students[k], fee_key, nows[k], logo_ok)
         IN  IF ~r.ok THEN r
             ELSE BulkLoop(c, labels, students, fee_key, nows, logo_ok, k + 1,
                           Append(pages, r.val.page), Append(calls, r.val.call))

\* faulty variant: the loop misses the first record
generate_bulk_one_pdf_from_second(c, shared, students, fee_key, nows, logo_ok) ==
    LET labels == LabelMap(c, shared)
    IN  IF ~labels.ok THEN labels
        ELSE BulkLoop(c, labels.val, students, fee_key, nows, logo_ok, 2, <<>>, <<>>)

\* generate_bulk_one_pdf: one page per record on a shared canvas
generate_bulk_one_pdf(c, shared, students, fee_key, nows, logo_ok) ==
    LET labels == LabelMap(c, shared)
    IN  IF ~labels.ok THEN labels
        ELSE BulkLoop(c, labels.val, students, fee_key, nows, logo_ok, 1, <<>>, <<>>)

\* f"resit_{fee_key.lower()}_{safe_name}.pdf"
ReceiptFileName(fee_key, row) ==
    <<"resit_", Lower(fee_key), "_">> \o ReplaceSpaces(row.NAMA) \o <<".pdf">>

RECURSIVE ZipLoop(_, _, _, _, _, _, _, _, _)
\* the loop of the archive branch: the entries written until it ends or raises
ZipLoop(c, shared, subset, fee_key, nows, logo_ok, k, entries, calls) ==
    IF k > Len(subset) THEN [ok |-> TRUE, err |-> "", entries |-> entries, calls |-> calls]
    ELSE LET pdf == generate_single_pdf_bytes(c, shared, subset[k], fee_key, nows[k], logo_ok)
         IN  IF ~pdf.ok THEN [ok |-> FALSE, err |-> pdf.err, entries |-> entries, calls |-> calls]
             ELSE ZipLoop(c, shared, subset, fee_key, nows, logo_ok, k + 1,
                          Append(entries, [name |-> ReceiptFileName(fee_key, subset[k]),
                                           pages |-> pdf.val.pages]),
                          calls \o pdf.val.calls)

\* the folder after each entry was also written to it: a later open(..., "wb")
\* of the same name replaces the earlier file
Written(entries) ==
    [f \in {entries[i].name : i \in 1..Len(entries)} |->
        LET last == CHOOSE i \in 1..Len(entries) :
                        /\ entries[i].name = f
                        /\ \A j \in (i+1)..Len(entries) : entries[j].name # f
        IN  entries[last].pages]

NoFiles == [f \in {} |-> <<>>]

----------------------------------------------------------------------------
(* Roster *)

REQUIRED_COLS ==
    {"NAMA", "NO_KP", "TINGKATAN", "KELAS",
     "MENGAJI_STATUS", "MENGAJI_AMOUNT", "MENGAJI_DATE",
     "SILAT_STATUS", "SILAT_AMOUNT", "SILAT_DATE"}

AMOUNT_COLS == {"MENGAJI_AMOUNT", "SILAT_AMOUNT"}

\* a column of an uploaded table that the program does not use
ExtraCol == "CATATAN"

\* A table: its columns, its rows (each a function of the columns) and the
\* columns of dtype float64.  A cell of a float64 column is a number counted
\* in hundredths, any other cell is a text.
Table(cols, rows, numeric) == [exists |-> TRUE, cols |-> cols, rows |-> rows, numeric |-> numeric]

DigitChars == {"0", "1", "2", "3", "4", "5", "6", "7", "8", "9"}

DigitVal(ch) == CHOOSE d \in 0..9 : ToString(d) = ch

RECURSIVE NatVal(_)
NatVal(s) == IF s = <<>> THEN 0 ELSE 10 * NatVal(SubSeq(s, 1, Len(s) - 1)) + DigitVal(s[Len(s)])

AllDigits(s) == \A i \in 1..Len(s) : s[i] \in DigitChars

\* pd.to_numeric(cell, errors="coerce") for a text of the form
\* [sign] digits [. digits]; anything else is NaN
ToNumeric(s) ==
    LET neg == s # <<>> /\ s[1] = "-"
        body == IF s # <<>> /\ s[1] \in {"-", "+"} THEN Tail(s) ELSE s
        dots == {i \in 1..Len(body) : body[i] = "."}
        dot == IF dots = {} THEN Len(body) + 1 ELSE CHOOSE i \in dots : \A j \in dots : i <= j
        ip == SubSeq(body, 1, dot - 1)
        fp == SubSeq(body, dot + 1, Len(body))
        frac == IF Len(fp) = 0 THEN 0
                ELSE IF Len(fp) = 1 THEN 10 * DigitVal(fp[1])
                ELSE NatVal(SubSeq(fp, 1, 2))
        v == 100 * NatVal(ip) + frac
    IN  IF AllDigits(ip) /\ AllDigits(fp) /\ Len(ip) + Len(fp) >= 1
        THEN [nan |-> FALSE, v |-> IF neg THEN -v ELSE v]
        ELSE [nan |-> TRUE, v |-> 0]

\* .fillna(0.0)
FillNa(n) == IF n.nan THEN 0 ELSE n.v

\* pd.to_numeric(df[col], errors="coerce").fillna(0.0) on one cell
CoerceAmount(t, col, cell) == IF col \in t.numeric THEN cell ELSE FillNa(ToNumeric(cell))

\* ensure_columns(df)
ensure_columns(t) ==
    Table(REQUIRED_COLS,
          [i \in 1..Len(t.rows) |->
              [col \in REQUIRED_COLS |->
                  LET cell == IF col \in t.cols THEN t.rows[i][col] ELSE <<>>
                  IN  IF col \in AMOUNT_COLS THEN CoerceAmount(t, col, cell) ELSE cell]],
          AMOUNT_COLS)

\* df.to_csv / pd.read_csv(dtype=str, keep_default_na=False): every cell a text
ToCsv(t) ==
    Table(t.cols,
          [i \in 1..Len(t.rows) |->
              [col \in t.cols |->
                  IF col \in t.numeric THEN FloatStr(t.rows[i][col]) ELSE t.rows[i][col]]],
          {})

\* pd.DataFrame(columns=REQUIRED_COLS)
EmptyFrame == Table(REQUIRED_COLS, <<>>, {})

\* load_students(): the frame, or the KeyError of df[col] on a file that
\* lacks an amount column
load_students(file) ==
    IF ~file.exists THEN Ok(ensure_columns(EmptyFrame))
    ELSE IF ~(AMOUNT_COLS \subseteq file.cols) THEN Raise("KeyError")
    ELSE Ok(ensure_columns(
            Table(file.cols,
                  [i \in 1..Len(file.rows) |->
                      [col \in file.cols |->
                          IF col \in AMOUNT_COLS
                          THEN FillNa(ToNumeric(file.rows[i][col]))
                          ELSE file.rows[i][col]]],
                  AMOUNT_COLS)))

----------------------------------------------------------------------------
(* Inputs *)

\* the value a settings widget is edited to, and the value a stored
\* configuration document holds for a key
CustomValue(k) ==
    CASE k = "app_title" -> <<"Yuran Asrama">>
      [] k = "branding_text" -> <<"ASRAMA PUTERA">>
      [] k = "receipt_prefix" -> <<"RX">>
      [] k = "receipt_footer" -> <<"Terima kasih.">>
      [] k = "receipt_logo_path" -> <<"logo.png">>
      [] k = "currency" -> <<"MYR">>
      [] k = "receipt_left_label_block" -> <<"Pelajar", NL, "Jumlah">>
      [] k = "receipt_right_label_block" -> <<"{NAMA}", NL, "{CURRENCY}", "{AMOUNT:.2f}">>
      [] k = "mengaji" -> <<"Mengaji">>
      [] k = "silat" -> <<"Silat">>
      [] OTHER -> <<"dark">>

Widgets == TopKeys \cup LabelKeys

\* the stored documents: any recognised key may be absent, the unknown key
\* may be present
StoredDocs ==
    { Config([k \in K \cup U |-> CustomValue(k)],
             IF has_ui THEN "own" ELSE "absent",
             [k \in (IF has_ui THEN L ELSE {}) |-> CustomValue(k)]) :
        K \in SUBSET TopKeys, U \in {{}, {UnknownKey}},
        has_ui \in BOOLEAN, L \in SUBSET LabelKeys }

\* a left block of n captions; no caption is the empty text, of one line
LeftBlock(n) ==
    [j \in 1..(IF n = 0 THEN 0 ELSE 2 * n - 1) |->
        IF j % 2 = 0 THEN NL ELSE "Label " \o ToString((j + 1) \div 2)]

RightFieldOrder ==
    <<"{NAMA}", "{NO_KP}", "{RECEIPT_NO}", "{DATE}", "{FEE_TYPE}", "{KELAS}",
      "{TINGKATAN}", "{CURRENCY}", "{AMOUNT}", "{AMOUNT:.2f}">>

\* a right block of n lines, line i one replacement field
RightBlock(n) ==
    [j \in 1..(IF n = 0 THEN 0 ELSE 2 * n - 1) |->
        IF j % 2 = 0 THEN NL ELSE RightFieldOrder[((((j + 1) \div 2) - 1) % Len(RightFieldOrder)) + 1]]

LeftBlocks == {LeftBlock(n) : n \in 0..MaxLines} \cup {DEFAULT_left_label_block, <<"Nama", NL>>}

RightBlocks ==
    {RightBlock(n) : n \in 0..MaxLines}
    \cup {DEFAULT_right_label_block, <<"{NAMA}", NL, UnknownField>>, <<LoneBrace, NL, "{NAMA}">>}

\* configurations whose templates and logo path vary
RenderConfigs ==
    { Config([k \in TopKeys |->
                 CASE k = "receipt_left_label_block" -> l
                   [] k = "receipt_right_label_block" -> r
                   [] k = "receipt_logo_path" -> p
                   [] OTHER -> DEFAULT_CONFIG[k]],
             "own", DEFAULT_ui_labels_literal) :
        l \in LeftBlocks, r \in RightBlocks, p \in {<<>>, CustomValue("receipt_logo_path")} }

Row(nama, no_kp, m_amount, m_date, s_amount, s_date) ==
    [col \in REQUIRED_COLS |->
        CASE col = "NAMA" -> nama
          [] col = "NO_KP" -> no_kp
          [] col = "TINGKATAN" -> <<"4">>
          [] col = "KELAS" -> <<"Bestari">>
          [] col = "MENGAJI_STATUS" -> <<"Sudah Bayar">>
          [] col = "MENGAJI_AMOUNT" -> m_amount
          [] col = "MENGAJI_DATE" -> m_date
          [] col = "SILAT_STATUS" -> <<"Belum Bayar">>
          [] col = "SILAT_AMOUNT" -> s_amount
          [] col = "SILAT_DATE" -> s_date]

\* a roster: two records of one name, a third whose name differs from it
\* only by an underscore, a fourth of another name
SampleRoster ==
    Table(REQUIRED_COLS,
          << Row(<<"A", " ", "B">>, <<"0101">>, 1250, <<>>, 0, <<"2024-01-05">>),
             Row(<<"A", "_", "B">>, <<"0202">>, 500, <<"2024-02-01">>, 3000, <<>>),
             Row(<<"A", " ", "B">>, <<"0303">>, 0, <<>>, 725, <<"2024-03-09">>),
             Row(<<"C">>, <<"0404">>, 10000, <<"2024-04-30">>, 5, <<>>) >>,
          AMOUNT_COLS)

\* a roster with a record whose name holds a line break (a quoted CSV field)
MultilineRoster ==
    Table(REQUIRED_COLS,
          << SampleRoster.rows[1],
             Row(<<"D", NL, "E">>, <<"0505">>, 1, <<>>, 99, <<>>) >>,
          AMOUNT_COLS)

OneRowRoster == Table(REQUIRED_COLS, <<SampleRoster.rows[1]>>, AMOUNT_COLS)

\* clock readings at which a handler starts, and by how much the clock has
\* moved on at the next reading
StartTimes == {0, 1, 60 * TicksPerSecond - 1}
Deltas == {0, 1, TicksPerSecond}

RECURSIVE Readings(_, _, _)
Readings(t0, ds, n) ==
    IF n = 0 THEN <<>>
    ELSE IF n = 1 THEN <<t0>>
    ELSE LET r == Readings(t0, ds, n - 1) IN Append(r, r[n - 1] + ds[n - 1])

\* the sequences of n successive clock readings
NowSeqs(n) ==
    IF n = 0 THEN {<<>>}
    ELSE {Readings(t0, ds, n) : t0 \in StartTimes, ds \in [1..(n - 1) -> Deltas]}

\* whether the image at the logo path loads; nothing is loaded without a path
LogoOutcomes == IF Get(cfg, "receipt_logo_path", <<>>) # <<>> THEN BOOLEAN ELSE {TRUE}

Injective(s) == \A i, j \in 1..Len(s) : s[i] = s[j] => i = j

\* st.multiselect over the rows shown: distinct row indices, in the order chosen
Selections ==
    {s \in UNION {[1..k -> 1..Len(df.rows)] : k \in 0..MaxRows} : Injective(s)}

\* list_df.loc[selected_idx]
Subset(sel) == [i \in 1..Len(sel) |-> df.rows[sel[i]]]

----------------------------------------------------------------------------
(* Operations *)

Result(op, status, err, fee_key, students, nows, logo_ok, pages, entries, calls, fname) ==
    [op |-> op, status |-> status, err |-> err, fee_key |-> fee_key, students |-> students,
     nows |-> nows, logo_ok |-> logo_ok, pages |-> pages, entries |-> entries,
     calls |-> calls, fname |-> fname]

NoResult == Result("none", "ok", "", "", <<>>, <<>>, TRUE, <<>>, <<>>, <<>>, <<>>)

\* an operation of the configuration or of the roster
Plain(op, status, err) == Result(op, status, err, "", <<>>, <<>>, TRUE, <<>>, <<>>, <<>>, <<>>)

\* cfg = load_config()
LoadConfig ==
    /\ cfg' = load_config(config_file)
    /\ result' = Plain("load_config", "ok", "")
    /\ UNCHANGED <<config_file, DEFAULT_ui_labels, students_file, df, receipts>>

\* how many widget values of a configuration differ from the defaults
CustomCount(v) ==
    Cardinality({k \in TopKeys : k \notin DOMAIN v.top \/ v.top[k] # DEFAULT_CONFIG[k]})
    + Cardinality({k \in LabelKeys :
                      k \notin DOMAIN v.ui_labels \/ v.ui_labels[k] # DEFAULT_ui_labels_literal[k]})

\* cfg[k] = st.text_input(..., value=cfg.get(k, default)) for the keys in keys:
\* the widget's value is the user's edit, or the value it was given
AssignTop(c, keys, edited) ==
    Config([k \in DOMAIN c.top \cup keys |->
               IF k \in keys
               THEN IF k \in edited THEN CustomValue(k) ELSE Get(c, k, DEFAULT_CONFIG[k])
               ELSE c.top[k]],
           c.ui, c.own)

\* cfg["ui_labels"][k] = text_input(..., value=cfg["ui_labels"].get(k, default))
AssignLabels(labels, edited) ==
    [k \in DOMAIN labels \cup LabelKeys |->
        IF k \in LabelKeys
        THEN IF k \in edited THEN CustomValue(k)
             ELSE IF k \in DOMAIN labels THEN labels[k] ELSE DEFAULT_ui_labels_literal[k]
        ELSE labels[k]]

\* the settings tab: reload, take every widget's value, save on the button
SettingsTab ==
    \E edited \in SUBSET Widgets, press \in BOOLEAN :
        LET c0 == load_config(config_file)
            c1 == AssignTop(c0, {"app_title", "branding_text", "receipt_prefix",
                                 "currency", "receipt_logo_path"}, edited)
            labels == AssignLabels(UiLabels(c0, DEFAULT_ui_labels), edited)
            c2 == AssignTop(c1, {"receipt_left_label_block", "receipt_right_label_block",
                                 "receipt_footer"}, edited)
            c3 == IF c0.ui = "shared" THEN c2 ELSE Config(c2.top, "own", labels)
            shared == IF c0.ui = "shared" THEN labels ELSE DEFAULT_ui_labels
        IN  /\ Cardinality(edited) <= MaxEdits
            /\ IF c0.ui = "absent"
               THEN /\ cfg' = c1
                    /\ result' = Plain("settings", "error", "KeyError")
                    /\ UNCHANGED <<DEFAULT_ui_labels, config_file>>
               ELSE /\ CustomCount(View(c3, shared)) <= MaxEdits
                    /\ cfg' = c3
                    /\ DEFAULT_ui_labels' = shared
                    /\ config_file' = IF press THEN save_config(c3, shared) ELSE config_file
                    /\ result' = Plain(IF press THEN "settings_saved" ELSE "settings", "ok", "")
            /\ UNCHANGED <<students_file, df, receipts>>

\* No generated document is on the page.  Each button press is a script run
\* of its own and no generation reads what an earlier one returned or wrote,
\* so a generation is followed from such a state only.
NothingGenerated ==
    result.op \notin {"individual_button", "bulk_button", "zip_button", "single", "bulk"}

\* the receipt tab reaches its buttons: both labels are read for the select
\* box, and the roster is not empty
ReceiptTabReady ==
    NothingGenerated /\ LabelMap(cfg, DEFAULT_ui_labels).ok /\ Len(df.rows) > 0

\* fee_key = "MENGAJI" if fee_choice == cfg["ui_labels"]["mengaji"] else "SILAT"
FeeKeyOf(choice) ==
    LET labels == UiLabels(cfg, DEFAULT_ui_labels)
    IN  IF labels[choice] = labels["mengaji"] THEN "MENGAJI" ELSE "SILAT"

\* the button of the single receipt
IndividualButton ==
    /\ ReceiptTabReady
    /\ \E sel \in Selections, choice \in LabelKeys, now \in StartTimes, logo_ok \in LogoOutcomes :
        LET fee_key == FeeKeyOf(choice)
            row == df.rows[sel[1]]
            pdf == generate_single_pdf_bytes(cfg, DEFAULT_ui_labels, row, fee_key, now, logo_ok)
            fname == ReceiptFileName(fee_key, row)
        IN  IF sel = <<>>
            THEN /\ result' = Result("individual_button", "warning", "", fee_key, <<>>, <<>>,
                                     logo_ok, <<>>, <<>>, <<>>, <<>>)
                 /\ receipts' = NoFiles
            ELSE IF ~pdf.ok
            THEN /\ result' = Result("individual_button", "error", pdf.err, fee_key, <<row>>,
                                     <<now>>, logo_ok, <<>>, <<>>, <<>>, <<>>)
                 /\ receipts' = NoFiles
            ELSE /\ result' = Result("individual_button", "ok", "", fee_key, <<row>>, <<now>>,
                                     logo_ok, pdf.val.pages, <<>>, pdf.val.calls, fname)
                 /\ receipts' = [f \in {fname} |-> pdf.val.pages]
    /\ UNCHANGED <<config_file, DEFAULT_ui_labels, cfg, students_file, df>>

\* the button of the multi-page document
BulkPdfButton ==
    /\ ReceiptTabReady
    /\ \E sel \in Selections, choice \in LabelKeys, logo_ok \in LogoOutcomes :
       \E nows \in NowSeqs(Len(sel) + 1) :
        LET fee_key == FeeKeyOf(choice)
            pdf == generate_bulk_one_pdf(cfg, DEFAULT_ui_labels, Subset(sel), fee_key,
                                         nows, logo_ok)
            fname == <<"bulk_", Lower(fee_key), "_">> \o StrfMinute(nows[Len(nows)]) \o <<".pdf">>
        IN  IF sel = <<>>
            THEN /\ result' = Result("bulk_button", "warning", "", fee_key, <<>>, <<>>,
                                     logo_ok, <<>>, <<>>, <<>>, <<>>)
                 /\ receipts' = NoFiles
            ELSE IF ~pdf.ok
            THEN /\ result' = Result("bulk_button", "error", pdf.err, fee_key, Subset(sel),
                                     nows, logo_ok, <<>>, <<>>, <<>>, <<>>)
                 /\ receipts' = NoFiles
            ELSE /\ result' = Result("bulk_button", "ok", "", fee_key, Subset(sel), nows,
                                     logo_ok, pdf.val.pages, <<>>, pdf.val.calls, fname)
                 /\ receipts' = [f \in {fname} |-> pdf.val.pages]
    /\ UNCHANGED <<config_file, DEFAULT_ui_labels, cfg, students_file, df>>

\* the button of the archive: one document per record, zipped, and each
\* also written to the receipts folder
BulkZipButton ==
    /\ ReceiptTabReady
    /\ \E sel \in Selections, choice \in LabelKeys, logo_ok \in LogoOutcomes :
       \E nows \in NowSeqs(Len(sel) + 1) :
        LET fee_key == FeeKeyOf(choice)
            zf == ZipLoop(cfg, DEFAULT_ui_labels, Subset(sel), fee_key, nows, logo_ok,
                          1, <<>>, <<>>)
            zip_name == <<"resit_zip_", Lower(fee_key), "_">> \o StrfMinute(nows[Len(nows)])
                        \o <<".zip">>
        IN  IF sel = <<>>
            THEN /\ result' = Result("zip_button", "warning", "", fee_key, <<>>, <<>>,
                                     logo_ok, <<>>, <<>>, <<>>, <<>>)
                 /\ receipts' = NoFiles
            ELSE IF ~zf.ok
            THEN /\ result' = Result("zip_button", "error", zf.err, fee_key, Subset(sel),
                                     nows, logo_ok, <<>>, <<>>, <<>>, <<>>)
                 /\ receipts' = Written(zf.entries)
            ELSE /\ result' = Result("zip_button", "ok", "", fee_key, Subset(sel), nows,
                                     logo_ok, <<>>, zf.entries, zf.calls, zip_name)
                 /\ receipts' = Written(zf.entries)
    /\ UNCHANGED <<config_file, DEFAULT_ui_labels, cfg, students_file, df>>

AnyFeeKey == FEE_KEYS \cup {OtherFeeKey}

\* a call of generate_single_pdf_bytes(cfg, row, fee_type_key)
CallGenerateSingle ==
    /\ NothingGenerated
    /\ \E i \in 1..Len(df.rows), fee_key \in AnyFeeKey, now \in StartTimes, logo_ok \in LogoOutcomes :
        LET pdf == generate_single_pdf_bytes(cfg, DEFAULT_ui_labels, df.rows[i], fee_key,
                                             now, logo_ok)
        IN  result' = IF pdf.ok
                      THEN Result("single", "ok", "", fee_key, <<df.rows[i]>>, <<now>>, logo_ok,
                                  pdf.val.pages, <<>>, pdf.val.calls, <<>>)
                      ELSE Result("single", "error", pdf.err, fee_key, <<df.rows[i]>>, <<now>>,
                                  logo_ok, <<>>, <<>>, <<>>, <<>>)
    /\ receipts' = NoFiles
    /\ UNCHANGED <<config_file, DEFAULT_ui_labels, cfg, students_file, df>>

\* a call of generate_bulk_one_pdf(cfg, students, fee_type_key)
CallGenerateBulk ==
    /\ NothingGenerated
    /\ \E sel \in Selections, fee_key \in AnyFeeKey, logo_ok \in LogoOutcomes :
       \E nows \in NowSeqs(Len(sel)) :
        LET pdf == generate_bulk_one_pdf(cfg, DEFAULT_ui_labels, Subset(sel), fee_key,
                                         nows, logo_ok)
        IN  result' = IF pdf.ok
                      THEN Result("bulk", "ok", "", fee_key, Subset(sel), nows, logo_ok,
                                  pdf.val.pages, <<>>, pdf.val.calls, <<>>)
                      ELSE Result("bulk", "error", pdf.err, fee_key, Subset(sel), nows,
                                  logo_ok, <<>>, <<>>, <<>>, <<>>)
    /\ receipts' = NoFiles
    /\ UNCHANGED <<config_file, DEFAULT_ui_labels, cfg, students_file, df>>

\* the cells an uploaded amount column holds: empty, a decimal, a negative
\* number, no number, a whole number
AmountCells == {<<>>, <<"1", "2", ".", "5">>, <<"-", "5">>, <<"a", "b", "c">>, <<"7">>}

\* the columns an uploaded table may lack or have
OptionalCols == {"NO_KP", "KELAS", "MENGAJI_AMOUNT", "SILAT_AMOUNT", "SILAT_DATE", ExtraCol}

RawRow(cols, amounts) ==
    [col \in cols |->
        CASE col = "MENGAJI_AMOUNT" -> amounts[1]
          [] col = "SILAT_AMOUNT" -> amounts[2]
          [] col = "NAMA" -> <<"A">>
          [] col \in {"MENGAJI_STATUS", "SILAT_STATUS"} -> <<"Belum Bayar">>
          [] col \in {"MENGAJI_DATE", "SILAT_DATE"} -> <<>>
          [] OTHER -> <<"4">>]

\* the tables pd.read_csv(up, dtype=str, keep_default_na=False) returns
RawTables ==
    { Table(cols, [i \in 1..Len(cells) |-> RawRow(cols, cells[i])], {}) :
        cols \in {(REQUIRED_COLS \ OptionalCols) \cup o : o \in SUBSET OptionalCols},
        cells \in UNION {[1..k -> AmountCells \X AmountCells] : k \in 0..MaxTableRows} }

\* a students file put in place by hand, without one amount column
ExternalCsv ==
    Table(REQUIRED_COLS \ {"SILAT_AMOUNT"},
          <<RawRow(REQUIRED_COLS \ {"SILAT_AMOUNT"}, <<<<"3">>, <<>>>>)>>, {})

\* the upload of a CSV: read, ensure_columns, save_students
UploadCsv ==
    /\ \E t \in RawTables :
        /\ df' = ensure_columns(t)
        /\ students_file' = ToCsv(ensure_columns(t))
    /\ result' = Plain("upload", "ok", "")
    /\ UNCHANGED <<config_file, DEFAULT_ui_labels, cfg, receipts>>

\* df = load_students()
LoadStudents ==
    /\ LET r == load_students(students_file)
       IN  IF r.ok
           THEN df' = r.val /\ result' = Plain("load_students", "ok", "")
           ELSE df' = df /\ result' = Plain("load_students", "error", r.err)
    /\ UNCHANGED <<config_file, DEFAULT_ui_labels, cfg, students_file, receipts>>

\* the form that adds a student: number_input has min_value=0.0
AddStudent ==
    /\ LET r == load_students(students_file)
       IN  /\ r.ok
           /\ Len(r.val.rows) < MaxTableRows
           /\ \E name \in {<<"A">>, <<"B", " ", "C">>}, m \in {0, 1250}, s \in {0, 300} :
                LET new_row == [col \in REQUIRED_COLS |->
                                   CASE col = "NAMA" -> name
                                     [] col = "NO_KP" -> <<"0606">>
                                     [] col = "TINGKATAN" -> <<"5">>
                                     [] col = "KELAS" -> <<"Inovatif">>
                                     [] col \in {"MENGAJI_STATUS", "SILAT_STATUS"} -> <<"Belum Bayar">>
                                     [] col = "MENGAJI_AMOUNT" -> m
                                     [] col = "SILAT_AMOUNT" -> s
                                     [] OTHER -> <<>>]
                    added == ensure_columns(Table(REQUIRED_COLS, Append(r.val.rows, new_row),
                                                  AMOUNT_COLS))
                IN  /\ df' = added
                    /\ students_file' = ToCsv(added)
    /\ result' = Plain("add_student", "ok", "")
    /\ UNCHANGED <<config_file, DEFAULT_ui_labels, cfg, receipts>>

----------------------------------------------------------------------------
(* Specifications *)

\* the script started with no configuration document and the sample roster
Init ==
    /\ config_file = NoFile
    /\ DEFAULT_ui_labels = DEFAULT_ui_labels_literal
    /\ cfg = load_config(NoFile)
    /\ students_file = ToCsv(SampleRoster)
    /\ df = SampleRoster
    /\ receipts = NoFiles
    /\ result = NoResult

Next ==
    \/ IndividualButton
    \/ BulkPdfButton
    \/ BulkZipButton
    \/ CallGenerateSingle
    \/ CallGenerateBulk

\* receipt generation under the default configuration
Spec == Init /\ [][Next]_vars

InitRender ==
    /\ config_file \in RenderConfigs
    /\ DEFAULT_ui_labels = DEFAULT_ui_labels_literal
    /\ cfg = load_config(config_file)
    /\ students_file = ToCsv(MultilineRoster)
    /\ df = MultilineRoster
    /\ receipts = NoFiles
    /\ result = NoResult

NextRender == CallGenerateSingle

\* one page rendered under every template
SpecRender == InitRender /\ [][NextRender]_vars

InitStored ==
    /\ config_file \in StoredDocs
    /\ DEFAULT_ui_labels = DEFAULT_ui_labels_literal
    /\ cfg = load_config(config_file)
    /\ students_file = ToCsv(OneRowRoster)
    /\ df = OneRowRoster
    /\ receipts = NoFiles
    /\ result = NoResult

NextStored ==
    \/ LoadConfig
    \/ CallGenerateSingle

\* a receipt generated from every stored configuration document
SpecStored == InitStored /\ [][NextStored]_vars

NextSettings ==
    \/ LoadConfig
    \/ SettingsTab

\* the settings form, from no configuration document
SpecSettings == Init /\ [][NextSettings]_vars

InitRoster ==
    /\ config_file = NoFile
    /\ DEFAULT_ui_labels = DEFAULT_ui_labels_literal
    /\ cfg = load_config(NoFile)
    /\ students_file \in {NoFile, ExternalCsv}
    /\ df = ensure_columns(EmptyFrame)
    /\ receipts = NoFiles
    /\ result = NoResult

NextRoster ==
    \/ UploadCsv
    \/ LoadStudents
    \/ AddStudent

\* the roster and its normalisation
SpecRoster == InitRoster /\ [][NextRoster]_vars

----------------------------------------------------------------------------
(* Properties *)

IsRightCell(o) == o.op = "drawString" /\ o.x = PageWidth \div 2
IsLeftCell(o) == o.op = "drawString" /\ o.x = margin /\ o.y > FooterRuleY
                 /\ o.y <= PageHeight - margin - BodyDrop

\* the texts of a page's right column, top to bottom
RightColumn(page) == [i \in 1..Len(SelectSeq(page, IsRightCell)) |-> SelectSeq(page, IsRightCell)[i].text]

BulkDone == result.op \in {"bulk", "bulk_button"}

\* page k of a multi-page document shows record k under the default template
PageShowsRecord(k) ==
    LET row == result.students[k]
        col == RightColumn(result.pages[k])
    IN  /\ Len(col) = 7
        /\ col[1] = row.NAMA
        /\ col[2] = row.NO_KP
        /\ col[3] = row.TINGKATAN \o <<" ">> \o row.KELAS
        /\ col[4] = DEFAULT_ui_labels_literal[Lower(result.fee_key)]
        /\ col[5] = <<"RM">> \o Format2f(row[AmountCol(result.fee_key)])
        /\ col[6] = (IF row[DateCol(result.fee_key)] # <<>> THEN row[DateCol(result.fee_key)]
                     ELSE StrfDate(result.nows[k]))
        /\ col[7] = result.calls[k].no

\* C1: generate_bulk_one_pdf, given N records and a recognised fee category,
\* returns a document of exactly N pages, and page k shows the fields of the
\* k-th record: none is skipped, duplicated or moved.
BulkOnePagePerRecordInOrder ==
    (BulkDone /\ result.status # "warning" /\ result.fee_key \in FEE_KEYS) =>
        /\ result.status = "ok"
        /\ Len(result.pages) = Len(result.students)
        /\ Len(result.calls) = Len(result.students)
        /\ \A k \in 1..Len(result.students) : PageShowsRecord(k)

\* C1 witness: a document of two different records
BulkOfTwoRecords ==
    /\ result.op = "bulk" /\ result.status = "ok"
    /\ Len(result.pages) = 2
    /\ result.students[1] # result.students[2]

DistinctNames(rows) == \A i, j \in 1..Len(rows) : rows[i].NAMA = rows[j].NAMA => i = j

DistinctEntryNames(entries) ==
    \A i, j \in 1..Len(entries) : entries[i].name = entries[j].name => i = j

ZipDone == result.op = "zip_button" /\ result.status = "ok"

\* C2: the archive of N records with pairwise distinct names holds N entries
\* with N pairwise distinct entry names.
ArchiveOfDistinctNamesHasDistinctEntries ==
    (ZipDone /\ DistinctNames(result.students)) =>
        /\ Len(result.entries) = Len(result.students)
        /\ DistinctEntryNames(result.entries)
        /\ \A k \in 1..Len(result.students) :
              result.entries[k].name = ReceiptFileName(result.fee_key, result.students[k])

\* C3: when two selected records have the same name, the archive pass still
\* gives every record an entry of its own name, and the receipts folder keeps
\* one file per record, each the document of its entry.
ArchiveDeduplicatesEqualNames ==
    (ZipDone /\ ~DistinctNames(result.students)) =>
        /\ Len(result.entries) = Len(result.students)
        /\ DistinctEntryNames(result.entries)
        /\ Cardinality(DOMAIN receipts) = Len(result.students)
        /\ \A k \in 1..Len(result.entries) :
              /\ result.entries[k].name \in DOMAIN receipts
              /\ receipts[result.entries[k].name] = result.entries[k].pages

\* C4: a fee category outside {MENGAJI, SILAT} makes every generation fail
\* with an error and return no document, whatever the records, none included.
UnknownFeeKeyFails ==
    (result.op # "none" /\ result.fee_key \notin FEE_KEYS) =>
        /\ result.status = "error"
        /\ result.pages = <<>>
        /\ result.entries = <<>>

\* C5: a receipt number is the prefix, a hyphen and the clock reading cut to
\* whole seconds; two numbers of one prefix differ when their readings are a
\* second or more apart and are equal when the readings lie in one second.
ReceiptNumberIsPrefixAndSecond ==
    \A i, j \in 1..Len(result.calls) :
        LET a == result.calls[i]
            b == result.calls[j]
            s == a.now \div TicksPerSecond
        IN  /\ a.no = a.prefix \o <<"-">> \o Digits(s \div 86400) \o <<"-">>
                      \o TwoDigits((s \div 3600) % 24) \o TwoDigits((s \div 60) % 60)
                      \o TwoDigits(s % 60)
            /\ (a.prefix = b.prefix /\ b.now - a.now >= TicksPerSecond) => a.no # b.no
            /\ (a.prefix = b.prefix /\ b.now \div TicksPerSecond = s) => a.no = b.no

\* C5 witness: one bulk pass gives two records the same receipt number, from
\* two different readings of one second
BulkPassRepeatsNumber ==
    /\ BulkDone /\ result.status = "ok"
    /\ \E i, j \in 1..Len(result.calls) :
          /\ i < j
          /\ result.calls[i].now # result.calls[j].now
          /\ result.calls[i].no = result.calls[j].no

GenerationSucceedsWhateverKeysAreStored ==
    (result.op = "single" /\ result.fee_key \in FEE_KEYS) => result.status = "ok"

SinglePage == result.op = "single" /\ result.status = "ok"

\* the body of a page: the calls between the two rules
Body(page) ==
    LET rules == {i \in 1..Len(page) : page[i].op = "line"}
        first == CHOOSE i \in rules : \A j \in rules : i <= j
        last == CHOOSE i \in rules : \A j \in rules : j <= i
    IN  SubSeq(page, first + 1, last - 1)

HasLineBreak(text) == \E i \in 1..Len(text) : text[i] = NL

\* the arguments the page of the last single generation was drawn with
LastFormatValues ==
    LET row == result.students[1]
        fee_key == result.fee_key
    IN  FormatValues(cfg, row, UiLabels(cfg, DEFAULT_ui_labels)[Lower(fee_key)],
                     row[AmountCol(fee_key)],
                     IF row[DateCol(fee_key)] # <<>> THEN row[DateCol(fee_key)]
                     ELSE StrfDate(result.nows[1]),
                     result.calls[1].no, result.nows[1])

LogoConfigured == Get(cfg, "receipt_logo_path", <<>>) # <<>>

WithoutLogo(c) == Config([c.top EXCEPT !["receipt_logo_path"] = <<>>], c.ui, c.own)

\* C9: with a logo path configured and an image that does not load, the
\* page is drawn all the same: the branding text alone at the left margin,
\* then the title, the rule, the body rows, the rule and the footer, call for
\* call the page drawn with no logo configured.
LogoFailureDrawsTextOnlyPage ==
    (result.op = "single" /\ LogoConfigured /\ ~result.logo_ok) =>
        LET plain == generate_single_pdf_bytes(WithoutLogo(cfg), DEFAULT_ui_labels,
                                               result.students[1], result.fee_key,
                                               result.nows[1], TRUE)
            page == result.pages[1]
            y == PageHeight - margin
        IN  /\ (result.status = "ok") = plain.ok
            /\ result.status = "ok" =>
                  /\ result.pages = plain.val.pages
                  /\ \A i \in 1..Len(page) : page[i].op # "drawImage"
                  /\ page[1] = SetFont("Helvetica-Bold", BrandingFontSize)
                  /\ page[2] = Op("drawString", margin, y - HeaderDrop, 0,
                                  Get(cfg, "branding_text", <<>>))
                  /\ page[3] = SetFont("Helvetica", BodyFontSize)
                  /\ page[4] = Op("drawRightString", PageWidth - margin, y - HeaderDrop, 0, TITLE)
                  /\ page[5] = Op("line", margin, y - RuleDrop, PageWidth - margin, <<>>)
                  /\ Len(Body(page)) = Len(page) - 8
                  /\ page[Len(page) - 2] = Op("line", margin, FooterRuleY, PageWidth - margin, <<>>)
                  /\ page[Len(page)] = Op("drawString", margin, FooterY, 0,
                                          Get(cfg, "receipt_footer", <<>>))

\* C9 witness: a page drawn although the configured logo did not load
PageDrawnAfterLogoFailure ==
    /\ SinglePage /\ LogoConfigured /\ ~result.logo_ok
    /\ Len(Body(result.pages[1])) > 0

\* C10: the frame ensure_columns returns has exactly the ten required
\* columns, and both fee amounts of every row are numbers that are not
\* negative.
NormalisedAmountsNotNegative ==
    /\ df.cols = REQUIRED_COLS
    /\ \A i \in 1..Len(df.rows) :
          /\ DOMAIN df.rows[i] = REQUIRED_COLS
          /\ \A col \in AMOUNT_COLS : df.rows[i][col] >= 0

====
